---- MODULE Spec2Model ----
(***************************************************************************)
(* Backpressure controller of the rulecatch SDK (backpressure.ts):         *)
(* persisted state, admission gate, capacity negotiation, outcome          *)
(* recorder and the drain loop flushWithBackpressure, run by one or        *)
(* several flush processes that share the state file.                      *)
(*                                                                         *)
(* Times are epoch milliseconds.  A JavaScript number that can be NaN is   *)
(* an integer or the marker NaN; a number read back from the JSON state    *)
(* file can be the marker Null (JSON.stringify writes NaN as null).        *)
(***************************************************************************)
EXTENDS Integers, Sequences, FiniteSets, TLC

(***************************************************************************)
(* Bounds of the model.                                                    *)
(***************************************************************************)
\* the clock stops after MaxTicks steps
MaxTicks == 2
\* a sendBatch failure is drawn only while consecutiveFailures < MaxFailures
MaxFailures == 11
\* flush processes of the concurrent specification
NumProcs == 2
\* sendBatch calls a drain may issue beyond the number of its events
MaxExtraCalls == 2
\* events track() is called with in the in-process tracker
MaxTracked == 4

(***************************************************************************)
(* JavaScript numbers: NaN, null, and arithmetic on them.                  *)
(***************************************************************************)
NaN == -1
Null == -2

\* ToNumber: null converts to 0
ToNumber(x) == IF x = Null THEN 0 ELSE x

Add(a, b) == IF ToNumber(a) = NaN \/ ToNumber(b) = NaN THEN NaN ELSE ToNumber(a) + ToNumber(b)
Sub(a, b) == IF ToNumber(a) = NaN \/ ToNumber(b) = NaN THEN NaN ELSE ToNumber(a) - ToNumber(b)
Mul(a, b) == IF ToNumber(a) = NaN \/ ToNumber(b) = NaN THEN NaN ELSE ToNumber(a) * ToNumber(b)
\* a > b: false as soon as one side is NaN
Gt(a, b) == ToNumber(a) # NaN /\ ToNumber(b) # NaN /\ ToNumber(a) > ToNumber(b)

Min(a, b) == IF a <= b THEN a ELSE b
Max(a, b) == IF a >= b THEN a ELSE b

RECURSIVE Pow(_, _)
Pow(b, e) == IF e <= 0 THEN 1 ELSE b * Pow(b, e - 1)

\* Math.ceil(x / 1000) of the log and reason strings
CeilSeconds(ms) == IF ms = NaN THEN NaN ELSE -((-ms) \div 1000)

(***************************************************************************)
(* Header values.  A header is absent or a text, a sequence of characters. *)
(***************************************************************************)
Absent == [present |-> FALSE]
Text(s) == [present |-> TRUE, text |-> s]

Digits == <<"0", "1", "2", "3", "4", "5", "6", "7", "8", "9">>
IsDigit(c) == \E i \in 1..10 : Digits[i] = c
DigitValue(c) == (CHOOSE i \in 1..10 : Digits[i] = c) - 1

RECURSIVE SkipSpaces(_)
SkipSpaces(s) == IF s # <<>> /\ Head(s) = " " THEN SkipSpaces(Tail(s)) ELSE s

RECURSIVE DigitRun(_, _)
DigitRun(s, acc) ==
    IF s # <<>> /\ IsDigit(Head(s))
    THEN DigitRun(Tail(s), acc * 10 + DigitValue(Head(s)))
    ELSE acc

\* parseInt(text, 10): leading blanks are skipped, then the longest run of
\* digits is read; no digit at all gives NaN
parseInt(s) ==
    LET t == SkipSpaces(s)
    IN IF t # <<>> /\ IsDigit(Head(t)) THEN DigitRun(t, 0) ELSE NaN

\* truthiness of a string | undefined | null value
Truthy(h) == h.present /\ h.text # <<>>

\* header || fallback
OrElse(h, fallback) == IF Truthy(h) THEN h.text ELSE fallback

(***************************************************************************)
(* CapacityResponse, BackpressureState, configuration.                     *)
(***************************************************************************)
DEFAULT_CAPACITY ==
    [ready |-> FALSE, maxBatchSize |-> 10, delayBetweenBatches |-> 5000, retryAfter |-> 30]

baseDelay == 1000
maxDelay == 300000
multiplier == 2
maxFailures == 10
MaxBackoffLevel == 10
RecheckEvery == 100

\* the clock advances in steps of the longest backoff delay
TickStep == maxDelay
ClockEnd == MaxTicks * TickStep

NullCapacity == [null |-> TRUE]

DefaultState ==
    [backoffLevel |-> 0, nextAttemptAfter |-> 0, lastCapacity |-> NullCapacity,
     consecutiveFailures |-> 0, lastSuccessTime |-> 0, pendingEventCount |-> 0]

(***************************************************************************)
(* The state file.  JSON.stringify writes a NaN number as null.            *)
(***************************************************************************)
NoFile == [exists |-> FALSE]

JsonNumber(x) == IF x = NaN THEN Null ELSE x

JsonCapacity(c) ==
    IF c = NullCapacity THEN c
    ELSE [c EXCEPT !.retryAfter = JsonNumber(@)]

\* JSON.parse(JSON.stringify(state))
JsonRoundTrip(state) ==
    [state EXCEPT !.nextAttemptAfter = JsonNumber(@),
                  !.lastCapacity = JsonCapacity(@)]

\* the file after saveState(state)
saveState(state) == [exists |-> TRUE, content |-> JsonRoundTrip(state)]

\* files JSON.parse cannot read: garbage, and a file cut to length 0 by the
\* open of a writeFileSync that has not written yet (was: what it held
\* before, kept for the properties)
CorruptFile == [exists |-> TRUE, corrupt |-> TRUE]
Truncated(was) == [exists |-> TRUE, truncated |-> TRUE, was |-> was]
\* a file readFileSync cannot read
UnreadableFile == [exists |-> TRUE, unreadable |-> TRUE]

Parses(f) == "content" \in DOMAIN f

\* an exception
Thrown == [thrown |-> TRUE]

\* the try block of loadState, lines 266-270, on an existing file
TryLoadState(f) == IF Parses(f) THEN f.content ELSE Thrown

\* loadState without its catch
loadState_NoCatch(f) == IF f.exists THEN TryLoadState(f) ELSE DefaultState

\* loadState() on file f
loadState(f) ==
    IF f.exists /\ TryLoadState(f) # Thrown THEN TryLoadState(f) ELSE DefaultState

(***************************************************************************)
(* Backoff calculator, admission gate, outcome recorder.                   *)
(***************************************************************************)
\* an exponential delay without its ceiling
calculateBackoffDelay_NoCap(backoffLevel) ==
    baseDelay * Pow(multiplier, backoffLevel)

calculateBackoffDelay(backoffLevel) ==
    Min(baseDelay * Pow(multiplier, backoffLevel), maxDelay)

\* a circuit breaker that stays open after its delay has elapsed
canAttemptFlush_BreakerLatched(state, t) ==
    LET waitMs == Sub(state.nextAttemptAfter, t)
    IN IF state.consecutiveFailures >= maxFailures
       THEN [allowed |-> FALSE, waitMs |-> waitMs,
             reason |-> [kind |-> "Circuit breaker open",
                         count |-> state.consecutiveFailures,
                         retryIn |-> CeilSeconds(waitMs)]]
       ELSE IF Gt(state.nextAttemptAfter, t)
       THEN [allowed |-> FALSE, waitMs |-> waitMs,
             reason |-> [kind |-> "Backing off",
                         level |-> state.backoffLevel,
                         retryIn |-> CeilSeconds(waitMs)]]
       ELSE [allowed |-> TRUE, waitMs |-> 0, reason |-> [kind |-> "OK"]]

\* a gate that looks at the backoff timer before the circuit breaker
canAttemptFlush_BackoffFirst(state, t) ==
    LET waitMs == Sub(state.nextAttemptAfter, t)
    IN IF Gt(state.nextAttemptAfter, t)
       THEN [allowed |-> FALSE, waitMs |-> waitMs,
             reason |-> [kind |-> "Backing off",
                         level |-> state.backoffLevel,
                         retryIn |-> CeilSeconds(waitMs)]]
       ELSE IF state.consecutiveFailures >= maxFailures /\ Gt(waitMs, 0)
       THEN [allowed |-> FALSE, waitMs |-> waitMs,
             reason |-> [kind |-> "Circuit breaker open",
                         count |-> state.consecutiveFailures,
                         retryIn |-> CeilSeconds(waitMs)]]
       ELSE [allowed |-> TRUE, waitMs |-> 0, reason |-> [kind |-> "OK"]]

\* canAttemptFlush(state) evaluated when Date.now() = t
canAttemptFlush(state, t) ==
    LET waitMs == Sub(state.nextAttemptAfter, t)
    IN IF state.consecutiveFailures >= maxFailures /\ Gt(waitMs, 0)
       THEN [allowed |-> FALSE, waitMs |-> waitMs,
             reason |-> [kind |-> "Circuit breaker open",
                         count |-> state.consecutiveFailures,
                         retryIn |-> CeilSeconds(waitMs)]]
       ELSE IF Gt(state.nextAttemptAfter, t)
       THEN [allowed |-> FALSE, waitMs |-> waitMs,
             reason |-> [kind |-> "Backing off",
                         level |-> state.backoffLevel,
                         retryIn |-> CeilSeconds(waitMs)]]
       ELSE [allowed |-> TRUE, waitMs |-> 0, reason |-> [kind |-> "OK"]]

\* a success that clears the backoff at once
recordSuccess_InstantReset(state, eventsSent, t) ==
    [state EXCEPT !.backoffLevel = 0,
                  !.consecutiveFailures = 0,
                  !.lastSuccessTime = t,
                  !.nextAttemptAfter = 0,
                  !.pendingEventCount = Max(0, state.pendingEventCount - eventsSent)]

\* recordSuccess(state, eventsSent) when Date.now() = t
recordSuccess(state, eventsSent, t) ==
    [state EXCEPT !.backoffLevel = Max(0, state.backoffLevel - 1),
                  !.consecutiveFailures = 0,
                  !.lastSuccessTime = t,
                  !.nextAttemptAfter = 0,
                  !.pendingEventCount = Max(0, state.pendingEventCount - eventsSent)]

\* a delay that looks at the status code before the Retry-After value
nextAttemptDelay_StatusFirst(newBackoffLevel, statusCode, retryAfterHeader) ==
    IF statusCode = 429 \/ statusCode = 503
    THEN calculateBackoffDelay(newBackoffLevel) * 2
    ELSE IF Truthy(retryAfterHeader)
    THEN Mul(parseInt(retryAfterHeader.text), 1000)
    ELSE calculateBackoffDelay(newBackoffLevel)

\* the delay recordFailure adds to now
nextAttemptDelay(newBackoffLevel, statusCode, retryAfterHeader) ==
    IF Truthy(retryAfterHeader)
    THEN Mul(parseInt(retryAfterHeader.text), 1000)
    ELSE IF statusCode = 429 \/ statusCode = 503
    THEN calculateBackoffDelay(newBackoffLevel) * 2
    ELSE calculateBackoffDelay(newBackoffLevel)

\* a failure count that stops at the circuit-breaker threshold
recordFailure_CappedCount(state, statusCode, retryAfterHeader, t) ==
    LET newFailureCount == Min(state.consecutiveFailures + 1, maxFailures)
        newBackoffLevel == Min(state.backoffLevel + 1, MaxBackoffLevel)
    IN [state EXCEPT !.backoffLevel = newBackoffLevel,
                     !.consecutiveFailures = newFailureCount,
                     !.nextAttemptAfter =
                         Add(t, nextAttemptDelay(newBackoffLevel, statusCode, retryAfterHeader))]

\* a backoff level without its cap
recordFailure_Uncapped(state, statusCode, retryAfterHeader, t) ==
    LET newFailureCount == state.consecutiveFailures + 1
        newBackoffLevel == state.backoffLevel + 1
    IN [state EXCEPT !.backoffLevel = newBackoffLevel,
                     !.consecutiveFailures = newFailureCount,
                     !.nextAttemptAfter =
                         Add(t, nextAttemptDelay(newBackoffLevel, statusCode, retryAfterHeader))]

\* recordFailure(state, statusCode, retryAfterHeader) when Date.now() = t
recordFailure(state, statusCode, retryAfterHeader, t) ==
    LET newFailureCount == state.consecutiveFailures + 1
        newBackoffLevel == Min(state.backoffLevel + 1, MaxBackoffLevel)
    IN [state EXCEPT !.backoffLevel = newBackoffLevel,
                     !.consecutiveFailures = newFailureCount,
                     !.nextAttemptAfter =
                         Add(t, nextAttemptDelay(newBackoffLevel, statusCode, retryAfterHeader))]

\* a pending count put into a fresh state instead of the given one
updatePendingCount_Fresh(state, count) == [DefaultState EXCEPT !.pendingEventCount = count]

updatePendingCount(state, count) == [state EXCEPT !.pendingEventCount = count]

(***************************************************************************)
(* Capacity negotiator.  A response is a rejected fetch (network failure   *)
(* or timeout) or an HTTP answer with a status, a Retry-After header and   *)
(* a body that parses as JSON or not.                                      *)
(***************************************************************************)
FetchError == [kind |-> "error"]
FetchTimeout == [kind |-> "error", timeout |-> TRUE]
Http(status, retryAfter, body) ==
    [kind |-> "http", status |-> status, retryAfter |-> retryAfter, body |-> body]
Malformed == [json |-> FALSE]
Json(data) == [json |-> TRUE, data |-> data]
\* the body "null"
JsonNull == Json(NullCapacity)

\* response.ok
ResponseOk(status) == status >= 200 /\ status <= 299

\* the try block, lines 349-401: the value it returns, or Thrown when fetch
\* rejects, response.json() rejects, or data is null where data.ready is read
TryGetServerCapacity(resp) ==
    IF resp.kind = "error" THEN Thrown
    ELSE IF resp.status = 429
    THEN [ready |-> FALSE, maxBatchSize |-> 0, delayBetweenBatches |-> 0,
          retryAfter |-> parseInt(OrElse(resp.retryAfter, <<"6", "0">>)),
          message |-> "Rate limited"]
    ELSE IF resp.status = 503
    THEN [ready |-> FALSE, maxBatchSize |-> 0, delayBetweenBatches |-> 0,
          retryAfter |-> parseInt(OrElse(resp.retryAfter, <<"1", "2", "0">>)),
          message |-> "Server overloaded"]
    ELSE IF ~ResponseOk(resp.status) THEN DEFAULT_CAPACITY
    ELSE IF ~resp.body.json THEN Thrown
    ELSE IF resp.body.data = NullCapacity THEN Thrown
    ELSE resp.body.data

\* a negotiator that looks at the body whatever the status
getServerCapacity_NoOkCheck(resp) ==
    LET tried == TryGetServerCapacity(resp)
    IN IF tried = Thrown THEN DEFAULT_CAPACITY
       ELSE IF resp.status \in {429, 503} THEN tried
       ELSE IF ~resp.body.json \/ resp.body.data = NullCapacity THEN DEFAULT_CAPACITY
       ELSE resp.body.data

\* lines 348-405: try, and catch (err) returning the default
getServerCapacity(resp) ==
    LET tried == TryGetServerCapacity(resp)
    IN IF tried = Thrown THEN DEFAULT_CAPACITY ELSE tried

(***************************************************************************)
(* Inputs: event lists, answers of the capacity endpoint, outcomes of the  *)
(* caller's sendBatch, clock steps.                                        *)
(***************************************************************************)
Events(n) == [i \in 1..n |-> i]

\* events.slice(0, n) and events.slice(n), for 0 <= n
SliceTo(s, n) == SubSeq(s, 1, Min(n, Len(s)))

\* a slice that starts one event too far
SliceFrom_SkipsOne(s, n) == SubSeq(s, n + 2, Len(s))

SliceFrom(s, n) == SubSeq(s, n + 1, Len(s))

Capacity(ready, maxBatchSize, delay, retryAfter) ==
    [ready |-> ready, maxBatchSize |-> maxBatchSize,
     delayBetweenBatches |-> delay, retryAfter |-> retryAfter]

HeaderValues ==
    {Absent, Text(<<>>), Text(<<"0">>), Text(<<"3", "0">>),
     Text(<<"W", "e", "d">>)}

SendOk == [ok |-> TRUE, status |-> 200, retryAfter |-> Absent]
SendFail(status, retryAfter) == [ok |-> FALSE, status |-> status, retryAfter |-> retryAfter]

(***************************************************************************)
(* State.                                                                  *)
(*   now      the wall clock, Date.now()                                   *)
(*   file     the backpressure state file                                  *)
(*   proc     per flush process: the position in flushWithBackpressure,    *)
(*            its local variables, its return value, and a record of the   *)
(*            calls it has issued                                          *)
(*   call     the last call of one of the pure functions, with its         *)
(*            arguments and its value (specification SpecFn)               *)
(***************************************************************************)
VARIABLES now, file, proc, call

vars == <<now, file, proc, call>>

Procs == 1..NumProcs

NoCall == [fn |-> "none"]
NoResult == [returned |-> FALSE]
NoBatch == [sent |-> FALSE]

IdleProc ==
    [pc |-> "idle",
     events |-> <<>>,            \* options.events
     state |-> DefaultState,     \* let state
     capacity |-> NullCapacity,  \* const capacity
     remainingEvents |-> <<>>,   \* let remainingEvents
     totalSent |-> 0,            \* let totalSent
     wakeAt |-> 0,               \* when the inter-batch setTimeout fires
     result |-> NoResult,        \* the value returned
     \* record of the call, for the properties
     loaded |-> DefaultState,    \* what loadState() returned
     startedAt |-> 0,            \* Date.now() at the gate
     path |-> "none",            \* return path taken
     negotiations |-> 0,         \* getServerCapacity calls issued
     sendCalls |-> 0,            \* sendBatch calls issued
     acked |-> <<>>,             \* events of the batches answered ok, in order
     batch |-> NoBatch,          \* the last batch passed to sendBatch
     failed |-> FALSE,           \* a sendBatch answered ok = false
     beforeBatch |-> DefaultState, \* state just before the last sendBatch
     eventTime |-> 0,            \* Date.now() at the last state change
     saved |-> NoFile]           \* what this call last wrote to the file

Init ==
    /\ now = 0
    /\ file = NoFile
    /\ proc = [p \in Procs |-> IdleProc]
    /\ call = NoCall

SetProc(p, r) == proc' = [proc EXCEPT ![p] = r]

\* a save that keeps the higher failure count of the file and the new state
AtomicCommit_Merges(p, r, content) ==
    /\ file' = [content EXCEPT !.content.consecutiveFailures =
                                  Max(@, loadState(file).consecutiveFailures)]
    /\ SetProc(p, r)

\* saveState(state) followed by return, r being the call once it has
\* returned; writeFileSync taken as one step
AtomicCommit(p, r, content) ==
    /\ file' = content
    /\ SetProc(p, r)

\* the last complete content of the file
PreviousFile(f) == IF "truncated" \in DOMAIN f THEN f.was ELSE f

\* saveState, first step, r being the call once it has returned: the open
\* fails and the call returns with nothing written (saved = NoFile), or the
\* open empties the file
TornOpen(p, r, content) ==
    \/ /\ file' = file
       /\ SetProc(p, [r EXCEPT !.saved = NoFile])
    \/ /\ file' = Truncated(PreviousFile(file))
       /\ SetProc(p, [r EXCEPT !.pc = "writing", !.result.returned = FALSE])

\* saveState and return, with writeFileSync in one step or in its two
Commit(torn, p, r, content) ==
    IF torn THEN TornOpen(p, r, content) ELSE AtomicCommit(p, r, content)

(***************************************************************************)
(* flushWithBackpressure, lines 520-529: load, gate.                       *)
(***************************************************************************)
\* a gate whose answer is not looked at
AfterGate_AlwaysAdmits(canAttempt) == "negotiating"

\* lines 525-529: a denied flush saves and returns, an admitted one negotiates
AfterGate(canAttempt) == IF canAttempt.allowed THEN "negotiating" ELSE "denied"

FlushStart(p, events) ==
    /\ proc[p].pc = "idle"
    /\ LET loaded == loadState(file)
           state == updatePendingCount(loaded, Len(events))
           canAttempt == canAttemptFlush(state, now)
       IN SetProc(p, [IdleProc EXCEPT
              !.pc = AfterGate(canAttempt),
              !.events = events,
              !.state = state,
              !.loaded = loaded,
              !.startedAt = now,
              !.eventTime = now])
    /\ UNCHANGED <<now, file, call>>

\* lines 525-529: the gate denied; save and return
GateDeniedWith(torn, p) ==
    /\ proc[p].pc = "denied"
    /\ Commit(torn, p, [proc[p] EXCEPT
           !.pc = "done",
           !.path = "denied",
           !.saved = saveState(proc[p].state),
           !.result = [returned |-> TRUE, success |-> FALSE, sent |-> 0,
                       remaining |-> Len(proc[p].events), state |-> proc[p].state]],
              saveState(proc[p].state))
    /\ UNCHANGED <<now, call>>

\* a denial that restarts the waiting window from the time of the denial
GateDenied_ExtendsWindow(p) ==
    /\ proc[p].pc = "denied"
    /\ LET state == [proc[p].state EXCEPT !.nextAttemptAfter =
                         Add(now, Sub(proc[p].state.nextAttemptAfter, proc[p].startedAt) + 1)]
       IN AtomicCommit(p, [proc[p] EXCEPT
              !.pc = "done",
              !.path = "denied",
              !.state = state,
              !.saved = saveState(state),
              !.result = [returned |-> TRUE, success |-> FALSE, sent |-> 0,
                          remaining |-> Len(proc[p].events), state |-> state]],
              saveState(state))
    /\ UNCHANGED <<now, call>>

GateDenied(p) == GateDeniedWith(FALSE, p)

\* an end of the drain that reports success whatever remains
FinishWith_AlwaysSucceeds(torn, p, r) ==
    LET state == updatePendingCount(r.state, Len(r.remainingEvents))
    IN Commit(torn, p, [r EXCEPT
              !.pc = "done",
              !.path = "drained",
              !.state = state,
              !.saved = saveState(state),
              !.result = [returned |-> TRUE,
                          success |-> TRUE,
                          sent |-> r.totalSent,
                          remaining |-> Len(r.remainingEvents),
                          state |-> state]],
              saveState(state))

\* lines 585-593: the end of the drain, on record r of the process
FinishWith(torn, p, r) ==
    LET state == updatePendingCount(r.state, Len(r.remainingEvents))
    IN Commit(torn, p, [r EXCEPT
              !.pc = "done",
              !.path = "drained",
              !.state = state,
              !.saved = saveState(state),
              !.result = [returned |-> TRUE,
                          success |-> Len(r.remainingEvents) = 0,
                          sent |-> r.totalSent,
                          remaining |-> Len(r.remainingEvents),
                          state |-> state]],
              saveState(state))

Finish(p, r) == FinishWith(FALSE, p, r)

\* lines 532-547: the first negotiation is answered
NegotiateWith(torn, p, resp) ==
    /\ proc[p].pc = "negotiating"
    /\ LET capacity == getServerCapacity(resp)
           r == [proc[p] EXCEPT !.capacity = capacity,
                                !.state.lastCapacity = capacity,
                                !.negotiations = @ + 1,
                                !.eventTime = now]
       IN IF ~capacity.ready
          THEN LET state == [r.state EXCEPT !.nextAttemptAfter =
                                 Add(now, Mul(capacity.retryAfter, 1000))]
               IN Commit(torn, p, [r EXCEPT
                         !.pc = "done",
                         !.path = "notready",
                         !.state = state,
                         !.saved = saveState(state),
                         !.result = [returned |-> TRUE, success |-> FALSE, sent |-> 0,
                                     remaining |-> Len(r.events), state |-> state]],
                         saveState(state))
          ELSE LET r2 == [r EXCEPT !.totalSent = 0, !.remainingEvents = r.events]
               IN IF Len(r2.remainingEvents) > 0
                  THEN SetProc(p, [r2 EXCEPT !.pc = "sending"]) /\ UNCHANGED file
                  ELSE FinishWith(torn, p, r2)
    /\ UNCHANGED <<now, call>>

Negotiate(p, resp) == NegotiateWith(FALSE, p, resp)

(***************************************************************************)
(* The send loop, lines 547-583.                                           *)
(***************************************************************************)
\* line 549
BatchSize(capacity, remainingEvents) == Min(capacity.maxBatchSize, Len(remainingEvents))

\* lines 556-560: the batch was acknowledged
OnBatchOk(r, t) ==
    LET batchSize == BatchSize(r.capacity, r.remainingEvents)
        batch == SliceTo(r.remainingEvents, batchSize)
    IN [r EXCEPT !.remainingEvents = SliceFrom(r.remainingEvents, batchSize),
                 !.totalSent = r.totalSent + Len(batch),
                 !.state = recordSuccess(r.state, Len(batch), t)]

\* a rejected batch counted as sent
OnBatchFailed_CountedAsSent(r, result, t) ==
    [r EXCEPT !.state = recordFailure(r.state, result.status, result.retryAfter, t),
              !.failed = TRUE,
              !.totalSent = r.totalSent + BatchSize(r.capacity, r.remainingEvents)]

\* lines 578-581: the batch was rejected
OnBatchFailed(r, result, t) ==
    [r EXCEPT !.state = recordFailure(r.state, result.status, result.retryAfter, t),
              !.failed = TRUE]

\* line 563: pause before the next batch
MustWait(r) == Len(r.remainingEvents) > 0 /\ r.capacity.delayBetweenBatches > 0

\* line 568: re-check capacity after the pause
MustRecheck(r) == r.totalSent % RecheckEvery = 0

\* the position after an acknowledged batch: pause, next batch, or loop exit
AfterBatchOk(r) ==
    IF MustWait(r) THEN "waiting"
    ELSE IF Len(r.remainingEvents) > 0 THEN "sending"
    ELSE "finish"

\* a rejected batch that does not leave the loop
AfterBatchFailed_Continues(r) == IF Len(r.remainingEvents) > 0 THEN "sending" ELSE "finish"

\* the position after a rejected batch: break
AfterBatchFailed(r) == "finish"

\* lines 548-582: sendBatch(batch) is answered with result
SendBatchWith(torn, p, result) ==
    /\ proc[p].pc = "sending"
    /\ proc[p].sendCalls < Len(proc[p].events) + MaxExtraCalls
    /\ ~result.ok => proc[p].state.consecutiveFailures < MaxFailures
    /\ LET cur == proc[p]
           batchSize == BatchSize(cur.capacity, cur.remainingEvents)
           called == [cur EXCEPT !.batch = [sent |-> TRUE,
                                            events |-> SliceTo(cur.remainingEvents, batchSize),
                                            ok |-> result.ok],
                                 !.acked = IF result.ok
                                           THEN @ \o SliceTo(cur.remainingEvents, batchSize)
                                           ELSE @,
                                 !.sendCalls = @ + 1,
                                 !.beforeBatch = cur.state,
                                 !.eventTime = now]
           r == IF result.ok THEN OnBatchOk(called, now)
                ELSE OnBatchFailed(called, result, now)
           next == IF result.ok THEN AfterBatchOk(r) ELSE AfterBatchFailed(r)
       IN IF next = "finish"
          THEN FinishWith(torn, p, r)
          ELSE /\ SetProc(p, [r EXCEPT !.pc = next,
                                       !.wakeAt = IF next = "waiting"
                                                  THEN now + r.capacity.delayBetweenBatches
                                                  ELSE @])
               /\ UNCHANGED file
    /\ UNCHANGED <<now, call>>

SendBatch(p, result) == SendBatchWith(FALSE, p, result)

\* lines 565-568: the pause is over; the timer fires once the clock has
\* reached wakeAt, and the sleep itself lets the clock get there
WaitDone(p) ==
    /\ proc[p].pc = "waiting"
    /\ Max(now, proc[p].wakeAt) <= ClockEnd
    /\ now' = Max(now, proc[p].wakeAt)
    /\ SetProc(p, [proc[p] EXCEPT
           !.pc = IF MustRecheck(proc[p]) THEN "renegotiating" ELSE "sending"])
    /\ UNCHANGED <<file, call>>

\* lines 569-575: the mid-drain negotiation is answered
Renegotiate(p, resp) ==
    /\ proc[p].pc = "renegotiating"
    /\ LET newCapacity == getServerCapacity(resp)
           r == [proc[p] EXCEPT !.state.lastCapacity = newCapacity,
                                !.negotiations = @ + 1,
                                !.eventTime = now]
       IN IF ~newCapacity.ready
          THEN Finish(p, r)
          ELSE SetProc(p, [r EXCEPT !.pc = "sending"]) /\ UNCHANGED file
    /\ UNCHANGED <<now, call>>

\* the caller has the return value; the process can flush again
Return(p) ==
    /\ proc[p].pc = "done"
    /\ SetProc(p, IdleProc)
    /\ UNCHANGED <<now, file, call>>

(***************************************************************************)
(* The environment: the clock, and the CLI's backpressure --reset=true.    *)
(***************************************************************************)
Tick(d) ==
    /\ now + d <= ClockEnd
    /\ now' = now + d
    /\ UNCHANGED <<file, proc, call>>

\* a reset that writes the default state instead of deleting the file
CliReset_WritesDefault ==
    /\ file.exists
    /\ file' = saveState(DefaultState)
    /\ UNCHANGED <<now, proc, call>>

CliReset ==
    /\ file.exists
    /\ file' = NoFile
    /\ UNCHANGED <<now, proc, call>>

(***************************************************************************)
(* Inputs of the specifications.                                           *)
(***************************************************************************)
EventCounts == {0, 2}

ServerBodies ==
    {Capacity(TRUE, 1, 0, 0), Capacity(TRUE, 0, TickStep, 0)}

Responses ==
    {FetchError, Http(429, Text(<<"W", "e", "d">>), Malformed)}
    \cup {Http(200, Absent, Json(c)) : c \in ServerBodies}

SendResults ==
    {SendOk, SendFail(500, Absent), SendFail(503, Absent), SendFail(429, Text(<<"0">>))}

(***************************************************************************)
(* One flush process, flushing again and again.                            *)
(***************************************************************************)
Next ==
    \/ \E n \in EventCounts : FlushStart(1, Events(n))
    \/ GateDenied(1)
    \/ \E resp \in Responses : Negotiate(1, resp)
    \/ \E result \in SendResults : SendBatch(1, result)
    \/ WaitDone(1)
    \/ \E resp \in Responses : Renegotiate(1, resp)
    \/ Return(1)
    \/ Tick(TickStep)
    \/ CliReset

Spec == Init /\ [][Next]_vars

(***************************************************************************)
(* One call of flushWithBackpressure, from a state file earlier flushes    *)
(* can have left, over event lists long enough for the re-check of         *)
(* capacity every RecheckEvery events, against every kind of answer.       *)
(***************************************************************************)
StateFile(level, failures, nextAttemptAfter, capacity, lastSuccess, pending) ==
    [exists |-> TRUE,
     content |-> [backoffLevel |-> level, nextAttemptAfter |-> nextAttemptAfter,
                  lastCapacity |-> capacity, consecutiveFailures |-> failures,
                  lastSuccessTime |-> lastSuccess, pendingEventCount |-> pending]]

\* the file at time TickStep: never written; after a clean flush; backing
\* off with the delay elapsed; circuit breaker open; circuit breaker with
\* the delay just elapsed; one failure short of the breaker, no delay
StartFiles ==
    {NoFile,
     StateFile(0, 0, 0, Capacity(TRUE, 1, 0, 0), 0, 0),
     StateFile(2, 2, calculateBackoffDelay(2), Capacity(TRUE, 1, 0, 0), 0, 2),
     StateFile(10, 11, TickStep + 2 * maxDelay, Capacity(TRUE, 1, 0, 0), 0, 2),
     StateFile(10, 10, maxDelay, Capacity(TRUE, 1, 0, 0), 0, 2),
     StateFile(9, 9, 0, Capacity(TRUE, 1, 0, 0), 0, 2)}

InitDrain ==
    /\ now = TickStep
    /\ file \in StartFiles
    /\ proc = [p \in Procs |-> IdleProc]
    /\ call = NoCall

DrainCounts == {0, 1, 3, 25, 150}

DrainBodies ==
    {Capacity(TRUE, 1, 0, 0), Capacity(TRUE, 2, 1000, 0), Capacity(TRUE, 10, 0, 0),
     Capacity(TRUE, 50, 5000, 0), Capacity(TRUE, 0, 5000, 0), Capacity(TRUE, 0, 0, 0),
     Capacity(FALSE, 50, 1000, 30), Capacity(FALSE, 50, 1000, 0)}

DrainResponses ==
    {FetchError, Http(500, Absent, Malformed), Http(200, Absent, Malformed)}
    \cup {Http(429, h, Malformed) : h \in HeaderValues}
    \cup {Http(503, h, Malformed) : h \in HeaderValues}
    \cup {Http(200, Absent, Json(c)) : c \in DrainBodies}

DrainResults ==
    {SendOk} \cup {SendFail(s, h) : s \in {429, 500, 503}, h \in HeaderValues}

NextDrain ==
    \/ \E n \in DrainCounts : FlushStart(1, Events(n))
    \/ GateDenied(1)
    \/ \E resp \in DrainResponses : Negotiate(1, resp)
    \/ \E result \in DrainResults : SendBatch(1, result)
    \/ WaitDone(1)
    \/ \E resp \in DrainResponses : Renegotiate(1, resp)
    \/ Tick(TickStep)

SpecDrain == InitDrain /\ [][NextDrain]_vars

(***************************************************************************)
(* Several flush processes, one call each, on the same state file.         *)
(***************************************************************************)
ConcCounts == {1}

ConcResponses == {FetchError, Http(200, Absent, Json(Capacity(TRUE, 1, 0, 0)))}

ConcResults == {SendOk, SendFail(500, Absent), SendFail(429, Text(<<"0">>))}

\* the file at time TickStep: never written; one failure short of the
\* breaker; circuit breaker with the delay just elapsed
ConcFiles ==
    {NoFile,
     StateFile(9, 9, 0, Capacity(TRUE, 1, 0, 0), 0, 2),
     StateFile(10, 10, maxDelay, Capacity(TRUE, 1, 0, 0), 0, 2)}

InitConc ==
    /\ now = TickStep
    /\ file \in ConcFiles
    /\ proc = [p \in Procs |-> IdleProc]
    /\ call = NoCall

\* The caller's buffer holds one file per event and a file is removed when
\* the batch holding its event is acknowledged: what the caller of flush p
\* reads from a buffer of n events and hands to flushWithBackpressure.
BufferedEvents(p, n) ==
    LET StillBuffered(e) ==
            \A q \in Procs \ {p} :
                \A i \in 1..Len(proc[q].acked) : proc[q].acked[i] # e
    IN SelectSeq(Events(n), StillBuffered)

NextConc ==
    \/ \E p \in Procs, n \in ConcCounts : FlushStart(p, BufferedEvents(p, n))
    \/ \E p \in Procs : GateDenied(p)
    \/ \E p \in Procs, resp \in ConcResponses : Negotiate(p, resp)
    \/ \E p \in Procs, result \in ConcResults : SendBatch(p, result)
    \/ Tick(TickStep)
    \/ CliReset

SpecConc == InitConc /\ [][NextConc]_vars

(***************************************************************************)
(* The same processes with writeFileSync in its two steps (line 290): the  *)
(* file is opened for writing, which empties it, and then the document is  *)
(* written.  Either step can fail; saveState catches the exception and     *)
(* logs it (lines 291-293).                                                *)
(***************************************************************************)
\* saveState, second step, followed by return: the document is written, or
\* the write fails and the file stays as it is (saved = NoFile)
WriteDone(p) ==
    /\ proc[p].pc = "writing"
    /\ \/ /\ file' = proc[p].saved
          /\ SetProc(p, [proc[p] EXCEPT !.pc = "done", !.result.returned = TRUE])
       \/ /\ file' = file
          /\ SetProc(p, [proc[p] EXCEPT !.pc = "done", !.result.returned = TRUE,
                                        !.saved = NoFile])
    /\ UNCHANGED <<now, call>>

FsCounts == {1}

FsResponses == {FetchError, Http(200, Absent, Json(Capacity(TRUE, 1, 0, 0)))}

FsResults == {SendOk, SendFail(500, Absent)}

\* the file at time TickStep: never written; backing off at level 3 for
\* one more TickStep
FsFiles ==
    {NoFile,
     StateFile(3, 3, 2 * TickStep, Capacity(TRUE, 1, 0, 0), 0, 1)}

InitFs ==
    /\ now = TickStep
    /\ file \in FsFiles
    /\ proc = [p \in Procs |-> IdleProc]
    /\ call = NoCall

NextFs ==
    \/ \E p \in Procs, n \in FsCounts : FlushStart(p, BufferedEvents(p, n))
    \/ \E p \in Procs : GateDeniedWith(TRUE, p)
    \/ \E p \in Procs, resp \in FsResponses : NegotiateWith(TRUE, p, resp)
    \/ \E p \in Procs, result \in FsResults : SendBatchWith(TRUE, p, result)
    \/ \E p \in Procs : WriteDone(p)
    \/ Tick(TickStep)

SpecFs == InitFs /\ [][NextFs]_vars

(***************************************************************************)
(* One flush process flushing again and again while the remote is healthy: *)
(* every negotiation answers ready with maxBatchSize >= 1 and every        *)
(* sendBatch succeeds.  Time passes, and a flush that has started goes on. *)
(***************************************************************************)
RecoverCounts == {1, 3}

RecoverResponses ==
    {Http(200, Absent, Json(Capacity(TRUE, 1, 0, 0))),
     Http(200, Absent, Json(Capacity(TRUE, 10, 0, 0)))}

\* the file at time 0, as failures before have left it: never written;
\* backing off at level 2; circuit breaker open for maxDelay; circuit
\* breaker with a nextAttemptAfter that was written as null
RecoverFiles ==
    {NoFile,
     StateFile(2, 2, calculateBackoffDelay(2), DEFAULT_CAPACITY, 0, 3),
     StateFile(10, 10, maxDelay, Capacity(TRUE, 1, 0, 0), 0, 3),
     StateFile(10, 12, Null, Capacity(FALSE, 0, 0, 60), 0, 1)}

InitRecover ==
    /\ now = 0
    /\ file \in RecoverFiles
    /\ proc = [p \in Procs |-> IdleProc]
    /\ call = NoCall

FlushRecover ==
    \/ \E n \in RecoverCounts : FlushStart(1, Events(n))
    \/ GateDenied(1)
    \/ \E resp \in RecoverResponses : Negotiate(1, resp)
    \/ SendBatch(1, SendOk)
    \/ Return(1)

NextRecover ==
    \/ FlushRecover
    \/ Tick(TickStep)

SpecRecover ==
    /\ InitRecover
    /\ [][NextRecover]_vars
    /\ WF_vars(FlushRecover)
    /\ WF_vars(Tick(TickStep))

(***************************************************************************)
(* The in-process tracker of ai-pooler (core.test.ts): track() and flush() *)
(* on the module-level eventBuffer.  In this specification the variable    *)
(* call holds the module state: eventBuffer, flushTimeout, whether         *)
(* config has licenseKey and endpoint, the events of every flush() that is *)
(* awaiting its fetch, and the events the endpoint has accepted.  Events   *)
(* are numbered in the order of their track() calls.                       *)
(***************************************************************************)
\* config.batchSize
TrackerBatchSize == 2

InitTracker ==
    /\ now = 0
    /\ file = NoFile
    /\ proc = [p \in Procs |-> IdleProc]
    /\ \E configured \in BOOLEAN :
           call = [fn |-> "tracker", configured |-> configured,
                   eventBuffer |-> <<>>, flushTimeout |-> FALSE,
                   tracked |-> 0, inFlight |-> {}, accepted |-> <<>>]

\* flush(), lines 1429-1449, up to its await, on module state m: the
\* timer is cleared; an empty buffer returns; the buffer is copied and
\* emptied; without licenseKey or endpoint the call returns; otherwise the
\* fetch is under way
FlushSync(m) ==
    LET cleared == [m EXCEPT !.flushTimeout = FALSE]
    IN IF Len(m.eventBuffer) = 0 THEN cleared
       ELSE IF ~m.configured THEN [cleared EXCEPT !.eventBuffer = <<>>]
       ELSE [cleared EXCEPT !.eventBuffer = <<>>,
                            !.inFlight = @ \cup {m.eventBuffer}]

\* track(event), lines 1389-1424: push, then flush() at batchSize events,
\* or arm the timer
Track ==
    /\ call.tracked < MaxTracked
    /\ LET pushed == [call EXCEPT !.tracked = @ + 1,
                                  !.eventBuffer = Append(@, call.tracked + 1)]
       IN call' = IF Len(pushed.eventBuffer) >= TrackerBatchSize
                  THEN FlushSync(pushed)
                  ELSE [pushed EXCEPT !.flushTimeout = TRUE]
    /\ UNCHANGED <<now, file, proc>>

\* flush() called by the application
Flush ==
    /\ call' = FlushSync(call)
    /\ UNCHANGED <<now, file, proc>>

\* setTimeout(flush, config.flushInterval) fires
FlushTimer ==
    /\ call.flushTimeout
    /\ call' = FlushSync(call)
    /\ UNCHANGED <<now, file, proc>>

\* lines 1451-1481: the fetch of a flush settles; a rejection or a
\* non-success status puts its events back at the head of the buffer
FetchSettles(events, ok) ==
    /\ events \in call.inFlight
    /\ call' = [call EXCEPT
           !.inFlight = @ \ {events},
           !.accepted = IF ok THEN @ \o events ELSE @,
           !.eventBuffer = IF ok THEN @ ELSE events \o @]
    /\ UNCHANGED <<now, file, proc>>

NextTracker ==
    \/ Track
    \/ Flush
    \/ FlushTimer
    \/ \E events \in call.inFlight, ok \in BOOLEAN : FetchSettles(events, ok)

SpecTracker == InitTracker /\ [][NextTracker]_vars

(***************************************************************************)
(* The pure functions, applied to arguments drawn from bounded sets.       *)
(***************************************************************************)
FnTimes == {TickStep, 2 * TickStep}

FnNextAttempts(t) == {0, Null, t - baseDelay, t, t + 1, t + 5 * baseDelay, t + maxDelay}

FnStates(t) ==
    [backoffLevel : 0..MaxBackoffLevel,
     nextAttemptAfter : FnNextAttempts(t),
     lastCapacity : {NullCapacity, DEFAULT_CAPACITY},
     consecutiveFailures : {0, 1, 9, 10, 15},
     lastSuccessTime : {0, t - baseDelay},
     pendingEventCount : {0, 10, 50}]

FnEventsSent == {0, 1, 20, 60}
FnLevels == 0..(MaxBackoffLevel + 2)
FnBodies ==
    {Malformed, JsonNull, Json(Capacity(TRUE, 50, 0, 0)), Json(Capacity(FALSE, 0, 0, 45))}
FnResponses ==
    {FetchError, FetchTimeout}
    \cup {Http(status, h, body) : status \in {200, 401, 404, 429, 500, 503},
                                  h \in HeaderValues, body \in FnBodies}
FnStatusCodes == {0, 429, 500, 503}

CallCalculateBackoffDelay ==
    /\ call = NoCall
    /\ \E level \in FnLevels :
           /\ call' = [fn |-> "calculateBackoffDelay", level |-> level,
                       out |-> calculateBackoffDelay(level)]
           /\ UNCHANGED <<now, file, proc>>

CallCanAttemptFlush ==
    /\ call = NoCall
    /\ \E t \in FnTimes : \E state \in FnStates(t) :
           /\ call' = [fn |-> "canAttemptFlush", state |-> state, t |-> t,
                       out |-> canAttemptFlush(state, t)]
           /\ UNCHANGED <<now, file, proc>>

CallGetServerCapacity ==
    /\ call = NoCall
    /\ \E resp \in FnResponses :
           /\ call' = [fn |-> "getServerCapacity", resp |-> resp,
                       out |-> getServerCapacity(resp)]
           /\ UNCHANGED <<now, file, proc>>

CallRecordSuccess ==
    /\ call = NoCall
    /\ \E t \in FnTimes : \E state \in FnStates(t), n \in FnEventsSent :
           /\ call' = [fn |-> "recordSuccess", state |-> state, eventsSent |-> n,
                       t |-> t,
                       out |-> recordSuccess(state, n, t)]
           /\ UNCHANGED <<now, file, proc>>

CallRecordFailure ==
    /\ call = NoCall
    /\ \E t \in FnTimes : \E state \in FnStates(t), status \in FnStatusCodes, h \in HeaderValues :
           /\ call' = [fn |-> "recordFailure", state |-> state, statusCode |-> status,
                       retryAfterHeader |-> h, t |-> t,
                       out |-> recordFailure(state, status, h, t)]
           /\ UNCHANGED <<now, file, proc>>

\* the state file as loadState can find it: absent, complete, not JSON,
\* unreadable, or emptied by a save in progress
FnFiles ==
    StartFiles \cup FsFiles
    \cup {CorruptFile, UnreadableFile}
    \cup {Truncated(f) : f \in FsFiles}

CallLoadState ==
    /\ call = NoCall
    /\ \E f \in FnFiles :
           /\ call' = [fn |-> "loadState", f |-> f, out |-> loadState(f)]
           /\ UNCHANGED <<now, file, proc>>

NextFn ==
    \/ CallLoadState
    \/ CallCalculateBackoffDelay
    \/ CallCanAttemptFlush
    \/ CallGetServerCapacity
    \/ CallRecordSuccess
    \/ CallRecordFailure

SpecFn == Init /\ [][NextFn]_vars

(***************************************************************************)
(* Properties.                                                             *)
(***************************************************************************)
Returned(p) == proc[p].result.returned

\* C1: whenever flushWithBackpressure has returned, sent + remaining is
\* the number of input events, sent is the total size of the batches that
\* sendBatch acknowledged, and the events of a rejected batch are all
\* counted in remaining.
C1_SentPlusRemaining ==
    \A p \in Procs :
        Returned(p) =>
            LET r == proc[p]
            IN /\ r.result.sent + r.result.remaining = Len(r.events)
               /\ r.result.sent = Len(r.acked)
               /\ r.failed =>
                      /\ ~r.batch.ok
                      /\ r.result.remaining = Len(r.remainingEvents)
                      /\ SliceTo(r.remainingEvents, Len(r.batch.events)) = r.batch.events

\* a drain that sent two batches and then had one rejected, events left
C1_Witness ==
    \E p \in Procs :
        /\ Returned(p)
        /\ proc[p].failed
        /\ proc[p].sendCalls = 3
        /\ proc[p].result.sent = 20
        /\ proc[p].result.remaining = 5
        /\ proc[p].capacity.maxBatchSize >= 1

InDrain(p) ==
    proc[p].pc \in {"sending", "waiting", "renegotiating"} \/ proc[p].path = "drained"

\* C2: within one drain the acknowledged events are a prefix of the input
\* list, the events left over are the matching suffix in their original
\* order, and every batch passed to sendBatch is the contiguous slice of the
\* input list that starts right after the events acknowledged before it.
C2_ContiguousSlices ==
    \A p \in Procs :
        InDrain(p) =>
            LET r == proc[p]
                before == IF r.batch.sent /\ r.batch.ok
                          THEN Len(r.acked) - Len(r.batch.events)
                          ELSE Len(r.acked)
            IN /\ r.acked = SubSeq(r.events, 1, Len(r.acked))
               /\ r.remainingEvents = SubSeq(r.events, Len(r.acked) + 1, Len(r.events))
               /\ r.batch.sent =>
                      r.batch.events =
                          SubSeq(r.events, before + 1, before + Len(r.batch.events))

\* 25 events acknowledged in batches of 10, 10 and 5
C2_Witness ==
    \E p \in Procs :
        /\ Returned(p)
        /\ Len(proc[p].events) = 25
        /\ proc[p].sendCalls = 3
        /\ proc[p].acked = proc[p].events
        /\ proc[p].batch.events = <<21, 22, 23, 24, 25>>
        /\ proc[p].result.success

\* C3: within one drain, a rejected batch ends the drain in the same step
\* with consecutiveFailures one higher and backoffLevel at most one higher
\* than just before that batch, and after it the drain issues no further
\* sendBatch call and no further capacity negotiation and leaves the
\* recorded failure as it is.
C3_FailureStopsDrain ==
    [][\A p \in Procs :
          /\ (proc[p].failed /\ proc'[p].pc # "idle") =>
                 /\ proc'[p].sendCalls = proc[p].sendCalls
                 /\ proc'[p].negotiations = proc[p].negotiations
                 /\ proc'[p].state = proc[p].state
          /\ (~proc[p].failed /\ proc'[p].failed) =>
                 /\ proc'[p].result.returned
                 /\ proc'[p].result.state.consecutiveFailures
                        = proc[p].state.consecutiveFailures + 1
                 /\ proc'[p].result.state.backoffLevel - proc[p].state.backoffLevel
                        \in {0, 1}
                 /\ proc'[p].beforeBatch = proc[p].state
      ]_vars

\* of 25 events the first batch of 10 was acknowledged and the second
\* rejected: 15 events, more than a batch, stay unsent
C3_Witness ==
    \E p \in Procs :
        /\ Returned(p)
        /\ proc[p].failed
        /\ proc[p].sendCalls = 2
        /\ Len(proc[p].acked) = 10
        /\ proc[p].result.remaining = 15
        /\ proc[p].result.state.backoffLevel = proc[p].beforeBatch.backoffLevel + 1

\* the gate's decision on the state a flush loaded
GateAtStart(p) ==
    canAttemptFlush(updatePendingCount(proc[p].loaded, Len(proc[p].events)),
                    proc[p].startedAt)

\* C4: a flush whose loaded state the gate denies issues no capacity
\* negotiation and no sendBatch call, and returns success = false,
\* sent = 0, remaining = events.length.
C4_DeniedMakesNoCall ==
    \A p \in Procs :
        (proc[p].pc # "idle" /\ ~GateAtStart(p).allowed) =>
            /\ proc[p].negotiations = 0
            /\ proc[p].sendCalls = 0
            /\ proc[p].pc \in {"denied", "done"}
            /\ Returned(p) =>
                   /\ proc[p].result.success = FALSE
                   /\ proc[p].result.sent = 0
                   /\ proc[p].result.remaining = Len(proc[p].events)

\* a denied flush of a non-empty list has returned
C4_Witness ==
    \E p \in Procs :
        /\ Returned(p)
        /\ proc[p].path = "denied"
        /\ ~GateAtStart(p).allowed
        /\ Len(proc[p].events) = 25
        /\ proc[p].result.remaining = 25

\* C5: when the initial capacity negotiation answers ready = false, no
\* sendBatch call occurs, the flush returns success = false, sent = 0,
\* remaining = events.length, and the state it saves has nextAttemptAfter =
\* now + retryAfter * 1000, a time before which the gate denies every flush
\* that loads the saved state.
C5_NotReadyBacksOff ==
    \A p \in Procs :
        proc[p].path = "notready" =>
            LET r == proc[p]
                until == r.saved.content.nextAttemptAfter
            IN /\ r.sendCalls = 0
               /\ r.result.success = FALSE
               /\ r.result.sent = 0
               /\ r.result.remaining = Len(r.events)
               /\ until \notin {NaN, Null}
               /\ r.capacity.retryAfter # NaN
               /\ until = r.eventTime + r.capacity.retryAfter * 1000
               /\ \A t \in {r.eventTime, until - 1} :
                      t < until => ~canAttemptFlush(loadState(r.saved), t).allowed

\* C6: canAttemptFlush(state) at time t allows with waitMs = 0 exactly when
\* nextAttemptAfter <= t, and otherwise denies with waitMs =
\* nextAttemptAfter - t > 0; every state with the same nextAttemptAfter gets
\* the same decision, whatever its other fields.
C6_GateDependsOnTimerOnly ==
    call.fn = "canAttemptFlush" =>
        LET due == ToNumber(call.state.nextAttemptAfter)
        IN /\ call.out.allowed = (due <= call.t)
           /\ call.out.allowed => call.out.waitMs = 0
           /\ ~call.out.allowed =>
                  call.out.waitMs = due - call.t /\ call.out.waitMs > 0
           /\ \A other \in FnStates(call.t) :
                  other.nextAttemptAfter = call.state.nextAttemptAfter =>
                      canAttemptFlush(other, call.t).allowed = call.out.allowed

\* the gate allowed a state with 15 consecutive failures whose delay is over
C6_Witness ==
    /\ call.fn = "canAttemptFlush"
    /\ call.state.consecutiveFailures = 15
    /\ call.state.nextAttemptAfter = call.t - baseDelay
    /\ call.out.allowed
    /\ call.out.waitMs = 0

LevelInRange(state) == state.backoffLevel \in 0..10

\* C7: in every reachable state the backoffLevel in the state file, in the
\* memory of every flush, in what a flush last saved and in what it
\* returned is an integer in 0..10.
C7_BackoffLevelInRange ==
    /\ file.exists => LevelInRange(file.content)
    /\ \A p \in Procs :
           /\ LevelInRange(proc[p].state)
           /\ proc[p].saved.exists => LevelInRange(proc[p].saved.content)
           /\ Returned(p) => LevelInRange(proc[p].result.state)

\* two flushes that both loaded level 10 have both had their batch
\* rejected, and the file holds level 10 with more than 10 failures
C7_Witness ==
    /\ file.exists
    /\ file.content.backoffLevel = 10
    /\ file.content.consecutiveFailures > 10
    /\ \A p \in {1, 2} :
           /\ proc[p].failed
           /\ proc[p].loaded.backoffLevel = 10
           /\ Returned(p)

\* C8: consecutiveFailures goes down only in a step in which sendBatch
\* acknowledges a batch: admission by the gate (also of a state with 10 or
\* more failures whose delay is over), a denial, a not-ready negotiation and
\* a rejected batch never lower it, and what a flush saves has a lower count
\* than what it loaded only if one of its sendBatch calls was acknowledged.
C8_OnlySuccessResetsFailures ==
    [][\A p \in Procs :
          LET before == IF proc[p].pc = "idle"
                        THEN loadState(file).consecutiveFailures
                        ELSE proc[p].state.consecutiveFailures
              acknowledged == /\ proc'[p].sendCalls = proc[p].sendCalls + 1
                              /\ proc'[p].batch.ok
          IN /\ (proc'[p].pc # "idle" /\ proc'[p].state.consecutiveFailures < before)
                    => acknowledged
             /\ (proc'[p].saved # proc[p].saved
                 /\ proc'[p].saved.content.consecutiveFailures
                        < proc'[p].loaded.consecutiveFailures)
                    => proc'[p].sendCalls > (IF proc'[p].failed THEN 1 ELSE 0)
      ]_vars

\* a state with 10 or more failures whose delay was over has been admitted
\* and the negotiation answered not ready: the count is what was loaded
C8_Witness ==
    \E p \in Procs :
        /\ proc[p].loaded.consecutiveFailures >= maxFailures
        /\ proc[p].path = "notready"
        /\ proc[p].negotiations = 1
        /\ proc[p].result.state.consecutiveFailures = proc[p].loaded.consecutiveFailures

\* C9: recordSuccess(state, n) at time t returns backoffLevel one lower but
\* not below 0, consecutiveFailures = 0, nextAttemptAfter = 0,
\* lastSuccessTime = t and pendingEventCount lowered by n but not below 0.
C9_RecordSuccess ==
    call.fn = "recordSuccess" =>
        LET s == call.state
            o == call.out
        IN /\ o.backoffLevel = (IF s.backoffLevel >= 1 THEN s.backoffLevel - 1 ELSE 0)
           /\ o.consecutiveFailures = 0
           /\ o.nextAttemptAfter = 0
           /\ o.lastSuccessTime = call.t
           /\ o.pendingEventCount =
                  (IF s.pendingEventCount >= call.eventsSent
                   THEN s.pendingEventCount - call.eventsSent ELSE 0)
           /\ o.backoffLevel >= 0
           /\ o.pendingEventCount >= 0

\* level 3 became 2 while 20 events sent of 10 pending left 0 pending
C9_Witness ==
    /\ call.fn = "recordSuccess"
    /\ call.state.backoffLevel = 3
    /\ call.state.pendingEventCount = 10
    /\ call.eventsSent = 20
    /\ call.out.backoffLevel = 2
    /\ call.out.pendingEventCount = 0

\* C10: recordFailure(state, status, retryAfter) returns consecutiveFailures
\* one higher, without any cap, and backoffLevel one higher but not above
\* 10, for every status code, with or without a Retry-After value.
C10_RecordFailure ==
    call.fn = "recordFailure" =>
        /\ call.out.consecutiveFailures = call.state.consecutiveFailures + 1
        /\ call.out.backoffLevel =
               (IF call.state.backoffLevel < 10 THEN call.state.backoffLevel + 1 ELSE 10)

\* at level 10 with 15 failures and a Retry-After value: 16 failures, level 10
C10_Witness ==
    /\ call.fn = "recordFailure"
    /\ call.state.backoffLevel = 10
    /\ call.state.consecutiveFailures = 15
    /\ Truthy(call.retryAfterHeader)
    /\ call.statusCode = 429
    /\ call.out.consecutiveFailures = 16
    /\ call.out.backoffLevel = 10

\* the delays of levels 0 to 8, in milliseconds
DoublingDelays == <<1000, 2000, 4000, 8000, 16000, 32000, 64000, 128000, 256000>>

\* the delay the backoff of level L stands for
DelayOfLevel(L) == IF L <= 8 THEN DoublingDelays[L + 1] ELSE 300000

\* C11: recordFailure sets nextAttemptAfter = now + D: D is the Retry-After
\* value times 1000 whenever one is given (a text that does not start with
\* an integer gives NaN), whatever the status; without one D is twice the
\* delay of the new level for 429 and 503, and the delay of the new level
\* for any other status.
C11_NextAttemptAfterFailure ==
    call.fn = "recordFailure" =>
        LET h == call.retryAfterHeader
            newLevel == IF call.state.backoffLevel < 10
                        THEN call.state.backoffLevel + 1 ELSE 10
            given == h.present /\ Len(h.text) > 0
        IN /\ h = Text(<<"3", "0">>) => call.out.nextAttemptAfter = call.t + 30000
           /\ h = Text(<<"0">>) => call.out.nextAttemptAfter = call.t
           /\ h = Text(<<"W", "e", "d">>) => call.out.nextAttemptAfter = NaN
           /\ (~given /\ call.statusCode \in {429, 503}) =>
                  call.out.nextAttemptAfter = call.t + 2 * DelayOfLevel(newLevel)
           /\ (~given /\ call.statusCode \notin {429, 503}) =>
                  call.out.nextAttemptAfter = call.t + DelayOfLevel(newLevel)

\* a 429 with Retry-After 30 at level 10: 30 seconds, not twice 5 minutes
C11_Witness ==
    /\ call.fn = "recordFailure"
    /\ call.statusCode = 429
    /\ call.retryAfterHeader = Text(<<"3", "0">>)
    /\ call.state.backoffLevel = 10
    /\ call.out.nextAttemptAfter = call.t + 30000

\* C12: calculateBackoffDelay(level) is 1000 at level 0, twice the delay of
\* the level below while that stays within 300000 (256000 at level 8),
\* exactly 300000 from level 9 on, and never lower than at a lower level.
C12_BackoffDelay ==
    call.fn = "calculateBackoffDelay" =>
        /\ call.out = DelayOfLevel(call.level)
        /\ call.level = 0 => call.out = 1000
        /\ call.level >= 9 => call.out = 300000
        /\ \A lower \in FnLevels :
               lower < call.level =>
                   /\ calculateBackoffDelay(lower) <= call.out
                   /\ (lower = call.level - 1 /\ 2 * calculateBackoffDelay(lower) <= 300000)
                          => call.out = 2 * calculateBackoffDelay(lower)

\* level 9 is the first level held at the ceiling
C12_Witness ==
    /\ call.fn = "calculateBackoffDelay"
    /\ call.level = 9
    /\ call.out = 300000

\* the shape of a capacity descriptor
IsDescriptor(c) ==
    /\ {"ready", "maxBatchSize", "delayBetweenBatches", "retryAfter"} \subseteq DOMAIN c
    /\ c.ready \in BOOLEAN

\* C13: getServerCapacity resolves to a capacity descriptor for every
\* outcome of the request, never to a rejection, and to the default
\* descriptor {ready: false, maxBatchSize: 10, delayBetweenBatches: 5000,
\* retryAfter: 30} on a network error, a timeout, a non-success status other
\* than 429 and 503 (whatever its body) and a success whose body cannot be
\* read.
C13_NegotiatorNeverThrows ==
    call.fn = "getServerCapacity" =>
        LET resp == call.resp
            default == [ready |-> FALSE, maxBatchSize |-> 10,
                        delayBetweenBatches |-> 5000, retryAfter |-> 30]
        IN /\ call.out # Thrown
           /\ IsDescriptor(call.out)
           /\ resp.kind = "error" => call.out = default
           /\ (resp.kind = "http" /\ resp.status \in {401, 404, 500}) => call.out = default
           /\ (resp.kind = "http" /\ resp.status = 200 /\ resp.body \in {Malformed, JsonNull})
                  => call.out = default
           /\ (resp.kind = "http" /\ resp.status = 200 /\ resp.body \notin {Malformed, JsonNull})
                  => call.out = resp.body.data

\* a 500 answer with a body that reads as a ready descriptor gave the default
C13_Witness ==
    /\ call.fn = "getServerCapacity"
    /\ call.resp.kind = "http"
    /\ call.resp.status = 500
    /\ call.resp.body = Json(Capacity(TRUE, 50, 0, 0))
    /\ call.out = DEFAULT_CAPACITY

\* the seconds a Retry-After header stands for, fallback when it is absent
\* or not an integer
SecondsOr(h, fallback) ==
    IF h = Text(<<"0">>) THEN 0
    ELSE IF h = Text(<<"3", "0">>) THEN 30
    ELSE fallback

\* C14: a 429 (503) answer to the negotiation gives {ready: false,
\* maxBatchSize: 0, delayBetweenBatches: 0, retryAfter}, with retryAfter the
\* integer of the Retry-After header, or 60 (120) when the header is absent
\* or is not an integer.
C14_RejectionDescriptor ==
    (call.fn = "getServerCapacity" /\ call.resp.kind = "http"
     /\ call.resp.status \in {429, 503}) =>
        /\ call.out.ready = FALSE
        /\ call.out.maxBatchSize = 0
        /\ call.out.delayBetweenBatches = 0
        /\ call.out.retryAfter =
               SecondsOr(call.resp.retryAfter, IF call.resp.status = 429 THEN 60 ELSE 120)

\* C15: a flush of an empty event list issues no capacity negotiation and
\* no sendBatch call and returns success = true, sent = 0, remaining = 0,
\* whatever the state file holds and whatever the remote would answer.
C15_EmptyFlushShortCircuits ==
    \A p \in Procs :
        (proc[p].pc # "idle" /\ Len(proc[p].events) = 0) =>
            /\ proc[p].negotiations = 0
            /\ proc[p].sendCalls = 0
            /\ Returned(p) =>
                   /\ proc[p].result.success
                   /\ proc[p].result.sent = 0
                   /\ proc[p].result.remaining = 0

\* C16: when the negotiated capacity is ready with maxBatchSize = 0 and
\* events remain, the flush treats it as not ready: it issues no sendBatch
\* call and returns with every event in remaining.
C16_ZeroBatchIsNotReady ==
    \A p \in Procs :
        (/\ proc[p].capacity # NullCapacity
         /\ proc[p].capacity.ready
         /\ proc[p].capacity.maxBatchSize = 0
         /\ Len(proc[p].events) > 0) =>
            /\ proc[p].sendCalls = 0
            /\ Returned(p) =>
                   /\ ~proc[p].result.success
                   /\ proc[p].result.sent = 0
                   /\ proc[p].result.remaining = Len(proc[p].events)

\* C17: whenever a flush is suspended on a negotiation, a sendBatch or the
\* pause between batches, what it last wrote to the state file is its
\* current state: every change made so far has been saved.
C17_SavedBeforeEveryCall ==
    \A p \in Procs :
        proc[p].pc \in {"negotiating", "sending", "waiting", "renegotiating"} =>
            proc[p].saved = saveState(proc[p].state)

\* C18: a batch is sent only after one negotiation at the start and one
\* more for every 100 events sent so far, and a mid-drain negotiation that
\* answers not ready ends the drain with the unsent events in remaining.
C18_RecheckEveryHundred ==
    \A p \in Procs :
        /\ proc[p].pc = "sending" =>
               proc[p].negotiations >= 1 + (proc[p].totalSent \div 100)
        /\ (Returned(p) /\ proc[p].path = "drained" /\ ~proc[p].failed
            /\ proc[p].result.remaining > 0) =>
               /\ proc[p].negotiations >= 2
               /\ ~proc[p].state.lastCapacity.ready
               /\ proc[p].result.sent + proc[p].result.remaining = Len(proc[p].events)

\* C19: after a drain in which every batch was acknowledged and nothing is
\* left, backoffLevel is the level loaded at the start minus one, floored
\* at 0, however many batches were sent.
C19_OneLevelPerFlush ==
    \A p \in Procs :
        (/\ Returned(p)
         /\ proc[p].result.success
         /\ proc[p].sendCalls >= 1) =>
            proc[p].result.state.backoffLevel =
                (IF proc[p].loaded.backoffLevel >= 1
                 THEN proc[p].loaded.backoffLevel - 1 ELSE 0)

\* the negotiation was answered 429 or 503
RejectedByStatus(capacity) ==
    /\ capacity # NullCapacity
    /\ "message" \in DOMAIN capacity
    /\ capacity.message \in {"Rate limited", "Server overloaded"}

\* the count and level one failure after state
OneMoreFailure(after, before) ==
    /\ after.consecutiveFailures = before.consecutiveFailures + 1
    /\ after.backoffLevel =
           (IF before.backoffLevel < 10 THEN before.backoffLevel + 1 ELSE 10)

\* C20: a rejected batch, 429 and 503 included, and a negotiation answered
\* 429 or 503 each add one to consecutiveFailures and one level, up to 10,
\* to backoffLevel, and the flush returns success = false with the events
\* not sent in remaining.
C20_RejectionsAreFailures ==
    \A p \in Procs :
        /\ (Returned(p) /\ proc[p].failed) =>
               /\ OneMoreFailure(proc[p].result.state, proc[p].beforeBatch)
               /\ ~proc[p].result.success
               /\ proc[p].result.sent + proc[p].result.remaining = Len(proc[p].events)
        /\ (Returned(p) /\ proc[p].path = "notready"
            /\ RejectedByStatus(proc[p].capacity)) =>
               /\ OneMoreFailure(proc[p].result.state, proc[p].loaded)
               /\ ~proc[p].result.success
               /\ proc[p].result.sent = 0
               /\ proc[p].result.remaining = Len(proc[p].events)

\* the state a flush of one batch saves, given the state it loaded
FromOwnSnapshot(r) ==
    LET l == r.loaded
        s == r.result.state
    IN /\ r.path = "denied" =>
              s = [l EXCEPT !.pendingEventCount = Len(r.events)]
       /\ r.path = "notready" =>
              /\ s.consecutiveFailures = l.consecutiveFailures
              /\ s.backoffLevel = l.backoffLevel
       /\ (r.path = "drained" /\ r.failed /\ r.sendCalls = 1) =>
              /\ s.consecutiveFailures = l.consecutiveFailures + 1
              /\ s.backoffLevel = (IF l.backoffLevel < 10 THEN l.backoffLevel + 1 ELSE 10)
       /\ (r.path = "drained" /\ ~r.failed /\ r.sendCalls = 1) =>
              /\ s.consecutiveFailures = 0
              /\ s.backoffLevel = (IF l.backoffLevel >= 1 THEN l.backoffLevel - 1 ELSE 0)
       /\ (r.path = "drained" /\ r.sendCalls = 0) =>
              /\ s.consecutiveFailures = l.consecutiveFailures
              /\ s.backoffLevel = l.backoffLevel
              /\ s.nextAttemptAfter = l.nextAttemptAfter

\* C21: with overlapping flushes on one state file, every write of the file
\* puts there exactly the state the writing flush returns, computed from
\* the snapshot that flush loaded at its start and from nothing another
\* flush has saved since: the file always holds the last save, unmerged.
C21_LastWriterWins ==
    [][(file' # file /\ file'.exists) =>
          \E p \in Procs :
              /\ ~proc[p].result.returned
              /\ proc'[p].result.returned
              /\ file' = saveState(proc'[p].result.state)
              /\ FromOwnSnapshot(proc'[p])
      ]_vars

\* two overlapping flushes both loaded 9 failures and both had their batch
\* rejected: the file counts 10 failures, one of the two is lost
C21_Witness ==
    /\ \A p \in {1, 2} :
           /\ Returned(p)
           /\ proc[p].failed
           /\ proc[p].loaded.consecutiveFailures = 9
    /\ file.exists
    /\ file.content.consecutiveFailures = 10

\* C22: of two flushes running over the same buffered events, no event is
\* in a batch acknowledged to the one and also in a batch acknowledged to
\* the other.  (An event leaves the buffer only when a batch holding it is
\* acknowledged, so a flush that starts later is not handed it again.)
C22_NoDoubleSend ==
    \A p \in Procs, q \in Procs :
        p # q =>
            \A i \in 1..Len(proc[p].acked), j \in 1..Len(proc[q].acked) :
                proc[p].acked[i] # proc[q].acked[j]

\* the nextAttemptAfter of the state file is in the future
PersistedWait == file.exists /\ Parses(file) /\ Gt(file.content.nextAttemptAfter, now)

\* C23: no flush issues a capacity negotiation or a sendBatch in a step
\* taken while the nextAttemptAfter stored in the state file is in the
\* future, whenever that flush loaded the state.
C23_NoCallBeforePersistedTime ==
    [][\A p \in Procs :
          (proc'[p] # proc[p] /\ proc'[p].pc \in {"negotiating", "sending", "renegotiating"})
              => ~PersistedWait
      ]_vars

\* C23 as amended: a flush issues a capacity negotiation or a sendBatch
\* only if the nextAttemptAfter it loaded at its start was not in the future
\* at that moment, and a flush that loaded one in the future is denied
\* without any call.
C23_GateHoldsLoadedTime ==
    \A p \in Procs :
        proc[p].pc # "idle" =>
            IF ToNumber(proc[p].loaded.nextAttemptAfter) <= proc[p].startedAt
            THEN proc[p].pc \notin {"denied"} /\ proc[p].path # "denied"
            ELSE /\ proc[p].pc \in {"denied", "done"}
                 /\ proc[p].negotiations = 0
                 /\ proc[p].sendCalls = 0

\* flush 1 has had its batch rejected and saved a nextAttemptAfter in the
\* future; flush 2, admitted on the state it loaded before, has a sendBatch
\* in flight
C23_Witness ==
    /\ Returned(1)
    /\ proc[1].failed
    /\ PersistedWait
    /\ file = proc[1].saved
    /\ proc[2].pc = "sending"
    /\ ToNumber(proc[2].loaded.nextAttemptAfter) <= proc[2].startedAt

\* the flushes in the middle of a save
Writers == {q \in Procs : proc[q].pc = "writing"}

\* C24: a loadState that runs while another process is saving returns the
\* complete state saved before or the complete state being saved: never a
\* mixture, never the default state for a truncated document.
C24_ReadersSeeWholeStates ==
    [][\A p \in Procs :
          (proc[p].pc = "idle" /\ proc'[p].pc # "idle" /\ Writers # {})
              => \/ proc'[p].loaded = loadState(PreviousFile(file))
                 \/ \E q \in Writers : proc'[p].loaded = proc[q].saved.content
      ]_vars

\* C26: a failure to write the state file leaves the call returning, with
\* the result of the path it took, and the file with its previous content:
\* the state a later loadState finds is the one it would have found before
\* the save.
C26_FailedWriteKeepsFile ==
    [][\A p \in Procs :
          (/\ proc[p].pc # "done"
           /\ proc'[p].pc = "done"
           /\ proc'[p].saved = NoFile
           /\ \A q \in Procs \ {p} : proc[q].pc \in {"idle", "done"})
              => /\ proc'[p].result.returned
                 /\ proc'[p].result.state = proc'[p].state
                 /\ proc'[p].path = "drained" =>
                        proc'[p].result.success = (proc'[p].result.remaining = 0)
                 /\ proc'[p].result.sent + proc'[p].result.remaining = Len(proc'[p].events)
                 /\ FromOwnSnapshot(proc'[p])
                 /\ loadState(file') = loadState(PreviousFile(file))
      ]_vars

\* C25: loadState never throws; for an absent file and for a file whose
\* content cannot be read or parsed it returns the default state, from
\* which the gate of flushWithBackpressure admits the flush at any time
\* and for any number of events; for a file that parses it returns the
\* content.
C25_LoadStateFallsBack ==
    call.fn = "loadState" =>
        /\ call.out # Thrown
        /\ IF call.f.exists /\ Parses(call.f)
           THEN call.out = call.f.content
           ELSE /\ call.out = [backoffLevel |-> 0, nextAttemptAfter |-> 0,
                               lastCapacity |-> NullCapacity,
                               consecutiveFailures |-> 0, lastSuccessTime |-> 0,
                               pendingEventCount |-> 0]
                /\ \A t \in FnTimes, n \in {0, 1, 50} :
                       /\ canAttemptFlush(updatePendingCount(call.out, n), t).allowed
                       /\ AfterGate(canAttemptFlush(updatePendingCount(call.out, n), t))
                              = "negotiating"

\* loadState has been called on a file that is not JSON
C25_Witness ==
    /\ call.fn = "loadState"
    /\ call.f = CorruptFile
    /\ call.out.consecutiveFailures = 0

\* C27: on every return path of flushWithBackpressure the returned state's
\* pendingEventCount is the returned remaining, and the document this call
\* last wrote to the state file is the returned state.
C27_ReturnedStateIsSavedState ==
    Returned(1) =>
        /\ proc[1].result.state.pendingEventCount = proc[1].result.remaining
        /\ proc[1].saved.exists
        /\ proc[1].saved.content = proc[1].result.state

\* C28: a denial by canAttemptFlush carries the circuit-breaker reason with
\* the exact consecutiveFailures whenever consecutiveFailures >= 10, and
\* otherwise the backoff reason with the current backoffLevel; an
\* admission carries the reason 'OK'.
C28_DenialReasons ==
    call.fn = "canAttemptFlush" =>
        IF call.out.allowed
        THEN call.out.reason = [kind |-> "OK"]
        ELSE IF call.state.consecutiveFailures >= 10
        THEN /\ call.out.reason.kind = "Circuit breaker open"
             /\ call.out.reason.count = call.state.consecutiveFailures
        ELSE /\ call.out.reason.kind = "Backing off"
             /\ call.out.reason.level = call.state.backoffLevel

\* a denial with 15 consecutive failures on record and backoff level 10
C28_Witness ==
    /\ call.fn = "canAttemptFlush"
    /\ call.state.consecutiveFailures = 15
    /\ call.state.backoffLevel = 10
    /\ ~call.out.allowed
    /\ call.out.reason.count = 15

\* C29: a step of `backpressure --reset=true` (the only step that changes
\* the file and no flush) leaves no state file, and a flush that starts
\* while there is no state file loads the default state and is admitted by
\* the gate, whatever was persisted before the reset.
C29_ResetClearsBackpressure ==
    [][/\ (file' # file /\ proc' = proc) => ~file'.exists
       /\ \A p \in Procs :
              (~file.exists /\ proc[p].pc = "idle" /\ proc'[p].pc # "idle")
                  => /\ proc'[p].loaded =
                            [backoffLevel |-> 0, nextAttemptAfter |-> 0,
                             lastCapacity |-> NullCapacity,
                             consecutiveFailures |-> 0, lastSuccessTime |-> 0,
                             pendingEventCount |-> 0]
                     /\ proc'[p].pc = "negotiating"
      ]_vars

\* flush 1 found 9 failures on file and left the tenth, with the circuit
\* breaker open; the file has been reset since, and flush 2, started after
\* the reset, has been admitted from the default state
C29_Witness ==
    /\ Returned(1)
    /\ proc[1].loaded.consecutiveFailures = 9
    /\ proc[1].result.state.consecutiveFailures = 10
    /\ Gt(proc[1].result.state.nextAttemptAfter, now)
    /\ ~file.exists
    /\ proc[2].pc = "negotiating"
    /\ proc[2].loaded = DefaultState
    /\ proc[2].startedAt = now

\* C30: a flush denied by the gate writes back backoffLevel,
\* consecutiveFailures, nextAttemptAfter, lastCapacity and lastSuccessTime
\* exactly as it loaded them, and pendingEventCount as the number of events
\* it was handed; that document is what the file holds when it returns.
C30_DenialKeepsState ==
    (Returned(1) /\ proc[1].path = "denied") =>
        /\ proc[1].saved.exists
        /\ proc[1].saved.content.backoffLevel = proc[1].loaded.backoffLevel
        /\ proc[1].saved.content.consecutiveFailures = proc[1].loaded.consecutiveFailures
        /\ proc[1].saved.content.nextAttemptAfter = proc[1].loaded.nextAttemptAfter
        /\ proc[1].saved.content.lastCapacity = proc[1].loaded.lastCapacity
        /\ proc[1].saved.content.lastSuccessTime = proc[1].loaded.lastSuccessTime
        /\ proc[1].saved.content.pendingEventCount = Len(proc[1].events)
        /\ file = proc[1].saved

\* a flush of three events has been denied with the circuit breaker open
C30_Witness ==
    /\ Returned(1)
    /\ proc[1].path = "denied"
    /\ proc[1].loaded.consecutiveFailures >= 10
    /\ Len(proc[1].events) = 3
    /\ proc[1].loaded.pendingEventCount # 3

\* min(consecutiveFailures, 10) <= backoffLevel
LevelCoversFailures(state) ==
    /\ (IF state.consecutiveFailures < 10 THEN state.consecutiveFailures ELSE 10)
           <= state.backoffLevel
    /\ state.consecutiveFailures >= 10 => state.backoffLevel = 10

\* C31: in every reachable state, flushes overwriting each other's file
\* included, min(consecutiveFailures, 10) <= backoffLevel in the file, in
\* the state each flush works on and in the state it returns; so with
\* consecutiveFailures >= 10 the backoffLevel is 10.
C31_LevelCoversFailures ==
    /\ (file.exists /\ Parses(file)) => LevelCoversFailures(file.content)
    /\ \A p \in Procs :
           /\ LevelCoversFailures(proc[p].state)
           /\ Returned(p) => LevelCoversFailures(proc[p].result.state)

\* flush 1 has recorded the tenth failure (circuit breaker, level 10) and
\* flush 2, which loaded the same 9 failures, has succeeded and saved last
C31_Witness ==
    /\ Returned(1)
    /\ proc[1].result.state.consecutiveFailures = 10
    /\ proc[1].result.state.backoffLevel = 10
    /\ Returned(2)
    /\ proc[2].loaded.consecutiveFailures = 9
    /\ proc[2].result.state.consecutiveFailures = 0
    /\ proc[2].result.state.backoffLevel = 8
    /\ file = proc[2].saved

\* C32: flushWithBackpressure returns success = true only when every input
\* event was acknowledged (sent = events.length, remaining = 0, the
\* acknowledged batches are the input list), never after a gate denial, a
\* not-ready answer, a pause in the middle of the drain or a failed batch.
C32_SuccessMeansAllAcknowledged ==
    (Returned(1) /\ proc[1].result.success) =>
        /\ proc[1].result.sent = Len(proc[1].events)
        /\ proc[1].result.remaining = 0
        /\ proc[1].acked = proc[1].events
        /\ proc[1].path = "drained"
        /\ proc[1].capacity.ready

\* 25 events have been drained in several batches and success returned
C32_Witness ==
    /\ Returned(1)
    /\ proc[1].result.success
    /\ Len(proc[1].events) = 25
    /\ proc[1].sendCalls > 1
    /\ proc[1].result.sent = 25

\* ceil(n / m) for m >= 1
CeilDiv(n, m) == (n + m - 1) \div m

\* C33: with a negotiated capacity that is ready and has maxBatchSize >= 1,
\* a drain makes at most ceil(events.length / maxBatchSize) sendBatch
\* calls: while the loop is still running every call so far has taken
\* maxBatchSize events off the remaining list, which is not empty.
C33_DrainIsBounded ==
    LET r == proc[1]
        n == Len(r.events)
        m == r.capacity.maxBatchSize
    IN (r.capacity # NullCapacity /\ r.capacity.ready /\ m >= 1) =>
           /\ r.sendCalls <= CeilDiv(n, m)
           /\ r.pc \in {"sending", "waiting", "renegotiating"} =>
                  /\ Len(r.remainingEvents) = n - r.sendCalls * m
                  /\ Len(r.remainingEvents) > 0
                  /\ r.sendCalls < CeilDiv(n, m)

\* 25 events have been drained in batches of at most 10 with the third
\* and last call
C33_Witness ==
    /\ Returned(1)
    /\ Len(proc[1].events) = 25
    /\ proc[1].sendCalls = 3
    /\ proc[1].capacity.ready
    /\ proc[1].capacity.maxBatchSize = 10
    /\ proc[1].result.remaining = 0

\* the persisted state of a healthy pipeline with nothing pending
Recovered ==
    /\ file.exists
    /\ Parses(file)
    /\ file.content.consecutiveFailures = 0
    /\ file.content.backoffLevel = 0
    /\ file.content.nextAttemptAfter = 0
    /\ file.content.pendingEventCount = 0

\* C34: with every negotiation answering ready (maxBatchSize >= 1) and
\* every sendBatch succeeding, repeated flushes of non-empty event lists
\* eventually leave, and from then on keep, a state file with
\* consecutiveFailures = 0, backoffLevel = 0, nextAttemptAfter = 0 and no
\* event pending, from any state failures have left, circuit breaker open
\* included.
C34_Recovery == <>[]Recovered

\* a flush that loaded backoff level 1, the last step down from the
\* levels failures had left, has returned with everything sent
C34_Witness ==
    /\ Returned(1)
    /\ proc[1].loaded.backoffLevel = 1
    /\ proc[1].result.success
    /\ proc[1].result.remaining = 0
    /\ Recovered

\* the last negotiation of the returned flush answered ready = false
PausedByRemote(r) ==
    \/ r.path = "notready"
    \/ /\ r.path = "drained"
       /\ r.negotiations >= 2
       /\ ~r.result.state.lastCapacity.ready

\* C35: when the remote answers ready = false, on the first negotiation or
\* on a re-negotiation in the middle of the drain, the state this flush
\* saves has nextAttemptAfter >= (time of the answer) + retryAfter * 1000.
C35_NotReadyHoldsNextFlush ==
    (Returned(1) /\ PausedByRemote(proc[1])) =>
        LET due == Add(proc[1].eventTime,
                       Mul(proc[1].result.state.lastCapacity.retryAfter, 1000))
            saved == proc[1].saved.content.nextAttemptAfter
        IN /\ due # NaN
           /\ saved # Null
           /\ saved >= due

\* C36: every batch passed to sendBatch has at most the maxBatchSize of
\* the capacity descriptor negotiated last before the call
\* (state.lastCapacity at the call), a re-negotiation in the middle of the
\* drain included.
C36_BatchWithinLatestCapacity ==
    [][proc'[1].sendCalls = proc[1].sendCalls + 1 =>
           /\ proc'[1].batch.sent
           /\ Len(proc'[1].batch.events) <= proc[1].state.lastCapacity.maxBatchSize
      ]_vars

\* lines 578-586 and 520-525: what the flush saves after the failure
\* recorded as out, and the answer of the gate to a flush that loads it at
\* time t
SavedAfterFailure(out) == saveState(updatePendingCount(out, 1))
GateAfterFailure(out, t) ==
    canAttemptFlush(updatePendingCount(loadState(SavedAfterFailure(out)), 1), t)

\* C37: after any failed batch, whatever the Retry-After value, the
\* nextAttemptAfter saved by the flush is strictly later than the time of
\* the failure and a flush started at once is denied.
C37_FailureAlwaysDelays ==
    call.fn = "recordFailure" =>
        /\ SavedAfterFailure(call.out).content.nextAttemptAfter # Null
        /\ SavedAfterFailure(call.out).content.nextAttemptAfter > call.t
        /\ ~GateAfterFailure(call.out, call.t).allowed

\* C37 as amended: after a failed batch with no Retry-After value (absent
\* or empty) or with one that is a positive integer, the nextAttemptAfter
\* saved is strictly later than the time of the failure and a flush started
\* at once is denied; with a Retry-After of 0 it is the time of the failure
\* and with one that is not a number it is null, and in both cases a flush
\* started at once is admitted.
C37_FailureDelaysUnlessZeroOrNaN ==
    call.fn = "recordFailure" =>
        LET h == call.retryAfterHeader
            saved == SavedAfterFailure(call.out).content.nextAttemptAfter
            gate == GateAfterFailure(call.out, call.t)
        IN /\ h \in {Absent, Text(<<>>), Text(<<"3", "0">>)} =>
                  /\ saved # Null
                  /\ saved > call.t
                  /\ ~gate.allowed
           /\ h = Text(<<"0">>) => saved = call.t /\ gate.allowed
           /\ h = Text(<<"W", "e", "d">>) => saved = Null /\ gate.allowed
           /\ h \in HeaderValues

\* the tenth failure in a row, a 429 with Retry-After: 0, after which the
\* gate admits the next flush at once
C37_Witness ==
    /\ call.fn = "recordFailure"
    /\ call.retryAfterHeader = Text(<<"0">>)
    /\ call.statusCode = 429
    /\ call.state.consecutiveFailures = 9
    /\ call.out.consecutiveFailures = 10
    /\ call.out.nextAttemptAfter = call.t
    /\ GateAfterFailure(call.out, call.t).allowed

\* how many times e occurs in the sequence q
Occurrences(e, q) == Cardinality({i \in 1..Len(q) : q[i] = e})

\* how many flushes awaiting their fetch hold e
Held(e) == Cardinality({f \in call.inFlight : Occurrences(e, f) > 0})

\* C38: no tracked event is lost or duplicated by flush(): every event
\* tracked so far is exactly once in eventBuffer, in a flush that is under
\* way, or among the events the endpoint has accepted, a skipped flush and
\* a failed flush having put theirs back in eventBuffer.
C38_TrackerKeepsEvents ==
    \A e \in 1..call.tracked :
        Occurrences(e, call.eventBuffer) + Held(e) + Occurrences(e, call.accepted) = 1

====
